---- MODULE Spec2Model ----
(***************************************************************************)
(* Model of conans/client/conf/config_installer.py: the configuration      *)
(* installer (configuration_install), its origin ledger, the staging       *)
(* folder, the merge walk (_process_folder) and the schedule gate          *)
(* (is_config_install_scheduled).                                          *)
(*                                                                         *)
(* One install call is a sequence of steps of a single synchronous         *)
(* process; pc is its position.  The steps are forced by pc: once a call   *)
(* has started, the only way on is the next statement of the code.         *)
(***************************************************************************)
EXTENDS Integers, Sequences, FiniteSets, TLC

VARIABLES
    stored,      \* content of the ledger file: sequence of JSON objects
    fileExists,  \* whether the ledger file exists
    mtime,       \* modification time of the ledger file
    now,         \* the clock
    cache,       \* files present in the cache folder (paths below the cache root)
    staging,     \* the folder <cache>/tmp_config_install: [exists, tree]
    live,        \* number of open tmp_config_install_folder scopes
    pc,          \* position of the install call
    req,         \* arguments of the call in progress
    mode,        \* branch of configuration_install taken: explicit/override/replay
    configs,     \* the local list `configs` of configuration_install
    idx,         \* index in configs of the origin being replayed
    config,      \* the local `config`: the origin being processed
    processed,   \* _process_config invocations of this call, in order
    written,     \* cache paths written by this call
    err,         \* the exception in flight or raised: sequence of message parts
    result,      \* outcome of the call: "none", "ok", "error"
    pre,         \* ledger file and cache as they were when the call started
    gate,        \* last evaluation of is_config_install_scheduled
    output,      \* texts this call handed to output.info, in order
    other        \* a second installer working on the same cache: its locals

vars == <<stored, fileExists, mtime, now, cache, staging, live, pc, req, mode,
          configs, idx, config, processed, written, err, result, pre, gate, output, other>>

(***************************************************************************)
(* Bounds of the model.                                                    *)
(***************************************************************************)
MaxLedger == 2      \* explicit installs stop appending at this ledger length
MaxTime == 1        \* the clock stops here
MaxInterval == 1    \* largest configured config_install_interval

(***************************************************************************)
(* Python values.                                                          *)
(***************************************************************************)
NoneV == "None"

\* truth value of a string-or-None operand of `or` / `if`
Truthy(x) == x /= NoneV /\ x /= ""

\* Python's `a or b` on string-or-None operands
PyOr(a, b) == IF Truthy(a) THEN a ELSE b

(***************************************************************************)
(* The file system outside the cache, as the probes of from_item see it.   *)
(***************************************************************************)
Uris == {"conf", "/w/conf", "http://u:pw@h/r.git", "/w/c.zip", "http://u:pw@h/c.zip", "junk"}

\* uris for which more than one probe of from_item answers yes: a directory
\* and a file with the suffix .git, a directory and a file whose relative
\* name starts with http
InferUris == {"/w/d.git", "/w/f.git", "httpd", "http.zip", "http://u:pw@h/c.zip", "junk"}

IsDir(uri) == uri \in {"conf", "/w/conf", "/w/d.git", "httpd", "/w/httpd"}
IsFile(uri) == uri \in {"/w/c.zip", "/w/f.git", "http.zip", "/w/http.zip"}
PathExists(uri) == IsDir(uri) \/ IsFile(uri)
\* os.path.abspath with the working directory /w
Abspath(uri) ==
    IF uri = "conf" THEN "/w/conf"
    ELSE IF uri = "httpd" THEN "/w/httpd"
    ELSE IF uri = "http.zip" THEN "/w/http.zip"
    ELSE uri
EndsWithDotGit(uri) == uri \in {"http://u:pw@h/r.git", "/w/d.git", "/w/f.git"}
StartsWithHttp(uri) ==
    uri \in {"http://u:pw@h/c.zip", "http://u:pw@h/r.git", "httpd", "http.zip"}
\* urlparse(resource).password
Password(resource) ==
    IF resource \in {"http://u:pw@h/c.zip", "http://u:pw@h/r.git"} THEN "pw" ELSE NoneV
\* resource.replace(password, "<hidden>")
ReplacePassword(resource) ==
    IF resource = "http://u:pw@h/c.zip" THEN "http://u:<hidden>@h/c.zip"
    ELSE IF resource = "http://u:pw@h/r.git" THEN "http://u:<hidden>@h/r.git"
    ELSE resource
\* the strings of the model that have ".git" as a substring
HasDotGit(s) == s \in {".git", ".github", "http://u:pw@h/r.git", "/w/d.git", "/w/f.git"}

\* _hide_password(resource), lines 22-30
HidePassword(resource) ==
    IF Truthy(Password(resource)) THEN ReplacePassword(resource) ELSE resource

(***************************************************************************)
(* Folder trees: a node is [files, dirs], dirs a sequence of [name, sub],  *)
(* both in listing order.                                                  *)
(***************************************************************************)
Leaf(files) == [files |-> files, dirs |-> <<>>]
EmptyTree == Leaf(<<>>)
Dir(name, sub) == [name |-> name, sub |-> sub]

\* the directory /w/conf
DirTree == [files |-> <<"README.md", "settings.yml">>,
            dirs |-> <<Dir(".git", Leaf(<<"config", "conan.conf">>)),
                       Dir(".github", Leaf(<<"ci.yml">>)),
                       Dir("sub", Leaf(<<"README.md", "x.txt">>))>>]
\* a clone of r.git
RepoTree == [files |-> <<"settings.yml">>,
             dirs |-> <<Dir(".git", Leaf(<<"config", "remotes.json">>))>>]
\* archives: a good one, and one carrying a remotes.json
ZipTree == Leaf(<<"settings.yml">>)
BadTree == Leaf(<<"settings.yml", "remotes.json", "a.txt">>)
ZipContents == {ZipTree, BadTree}
\* the directory /w/conf once remotes.json files were put into it
BadDirTree == [files |-> <<"README.md", "remotes.json", "settings.yml">>,
               dirs |-> <<Dir(".git", Leaf(<<"config">>)),
                          Dir("sub", Leaf(<<"README.md", "remotes.json", "x.txt">>))>>]
\* what the directory at a dir origin's uri may hold when it is merged
DirContents == {DirTree, BadDirTree}
\* what an interrupted earlier run left in the staging folder
StaleTree == Leaf(<<"stale.txt">>)

NoStaging == [exists |-> FALSE, tree |-> EmptyTree]

(***************************************************************************)
(* _ConfigOrigin                                                           *)
(***************************************************************************)
\* __init__: the object built from a JSON object of the ledger.  The
\* attribute config_type does not exist until line 233 sets it.
ConfigOrigin(data) ==
    [type |-> data.type, uri |-> data.uri, verify_ssl |-> data.verify_ssl,
     args |-> data.args, source_folder |-> data.source_folder,
     target_folder |-> data.target_folder, config_type |-> NoneV]

\* __eq__: verify_ssl takes no part
ConfigEq(a, b) ==
    /\ a.type = b.type
    /\ a.uri = b.uri
    /\ a.args = b.args
    /\ a.source_folder = b.source_folder
    /\ a.target_folder = b.target_folder

\* json(): the six persisted keys
Json(c) ==
    [type |-> c.type, uri |-> c.uri, verify_ssl |-> c.verify_ssl,
     args |-> c.args, source_folder |-> c.source_folder,
     target_folder |-> c.target_folder]

\* from_item probing for a directory before it looks at the suffix
DeduceTypeDirFirst(uri, config_type) ==
    IF Truthy(config_type) THEN config_type
    ELSE IF IsDir(uri) THEN "dir"
    ELSE IF EndsWithDotGit(uri) THEN "git"
    ELSE IF IsFile(uri) THEN "file"
    ELSE IF StartsWithHttp(uri) THEN "url"
    ELSE ""

\* the type from_item settles on; "" when it raises
DeduceType(uri, config_type) ==
    IF Truthy(config_type) THEN config_type
    ELSE IF EndsWithDotGit(uri) THEN "git"
    ELSE IF IsDir(uri) THEN "dir"
    ELSE IF IsFile(uri) THEN "file"
    ELSE IF StartsWithHttp(uri) THEN "url"
    ELSE ""

FromItem(uri, config_type, verify_ssl, args, source_folder, target_folder) ==
    [type |-> DeduceType(uri, config_type),
     uri |-> IF PathExists(uri) THEN Abspath(uri) ELSE uri,
     verify_ssl |-> verify_ssl, args |-> args,
     source_folder |-> source_folder, target_folder |-> target_folder,
     config_type |-> NoneV]

\* `config in configs`
InConfigs(c, cs) == \E i \in 1..Len(cs) : ConfigEq(cs[i], c)

\* _save_configs: what is written to the file
SaveConfigs(cs) == [i \in 1..Len(cs) |-> Json(cs[i])]

\* lines 220-226: the list loaded from the file
LoadConfigs ==
    IF fileExists THEN [i \in 1..Len(stored) |-> ConfigOrigin(stored[i])] ELSE <<>>

(***************************************************************************)
(* _process_folder                                                         *)
(***************************************************************************)
RECURSIVE WalkNode(_, _)
RECURSIVE WalkDirs(_, _, _)
\* walk(folder) with the pruning of line 93: the (root, files) pairs, top down
WalkNode(node, path) ==
    <<[root |-> path, files |-> node.files]>> \o WalkDirs(node.dirs, path, 1)
WalkDirs(dirs, path, i) ==
    IF i > Len(dirs) THEN <<>>
    ELSE (IF dirs[i].name /= ".git"
          THEN WalkNode(dirs[i].sub, path \o <<dirs[i].name>>)
          ELSE <<>>) \o WalkDirs(dirs, path, i + 1)

\* line 94: `".git" in root`, a substring test on the whole path string
RootHasDotGit(base, path) ==
    \/ \E i \in 1..Len(base) : HasDotGit(base[i])
    \/ \E i \in 1..Len(path) : HasDotGit(path[i])

\* lines 90-91: the folder walked, and the path string it has
EffectiveBase(c, base) ==
    IF Truthy(c.source_folder) THEN base \o <<c.source_folder>> ELSE base

\* the walk of the effective root; empty when the folder does not exist
EffectiveWalk(c, tree, present) ==
    IF ~present THEN <<>>
    ELSE IF ~Truthy(c.source_folder) THEN WalkNode(tree, <<>>)
    ELSE LET hit == {i \in 1..Len(tree.dirs) : tree.dirs[i].name = c.source_folder}
         IN IF hit = {} THEN <<>>
            ELSE WalkNode(tree.dirs[CHOOSE i \in hit : TRUE].sub, <<>>)

RECURSIVE VisitedFiles(_, _, _)
\* the files the loop of line 96 reaches, in order: [root, name]
VisitedFiles(walk, base, i) ==
    IF i > Len(walk) THEN <<>>
    ELSE (IF RootHasDotGit(base, walk[i].root) THEN <<>>
          ELSE [j \in 1..Len(walk[i].files) |->
                    [root |-> walk[i].root, name |-> walk[i].files[j]]])
         \o VisitedFiles(walk, base, i + 1)

\* lines 122-127: where the generic rule puts a file, below the cache root
TargetPath(c, f) ==
    (IF Truthy(c.target_folder) THEN <<c.target_folder>> ELSE <<>>)
        \o f.root \o <<f.name>>

\* a remotes.json taken for an ordinary file
RaisesNever(f) == FALSE

\* lines 114-116: the file the merge refuses
Raises(f) == f.name = "remotes.json"

\* lines 97-130 for one file: [cache, wrote, raised]
MergeFile(c, f, files) ==
    IF f.name = "settings.yml"
    THEN [cache |-> files \cup {<<"settings.yml">>},
          wrote |-> {<<"settings.yml">>}, raised |-> FALSE]
    ELSE IF f.name = "conan.conf"
    THEN [cache |-> files \cup {<<"conan.conf">>},
          wrote |-> {<<"conan.conf">>}, raised |-> FALSE]
    ELSE IF f.name = "remotes.txt"
    THEN [cache |-> files \cup {<<"remotes.json">>},
          wrote |-> {<<"remotes.json">>}, raised |-> FALSE]
    ELSE IF f.name \in {"registry.txt", "registry.json"}
    THEN [cache |-> (files \ {<<"remotes.json">>}) \cup {<<f.name>>},
          wrote |-> {<<f.name>>}, raised |-> FALSE]
    ELSE IF Raises(f)
    THEN [cache |-> files, wrote |-> {}, raised |-> TRUE]
    ELSE IF f.root = <<>> /\ f.name \in {"README.md", "LICENSE.txt"}
    THEN [cache |-> files, wrote |-> {}, raised |-> FALSE]
    ELSE [cache |-> files \cup {TargetPath(c, f)},
          wrote |-> {TargetPath(c, f)}, raised |-> FALSE]

RECURSIVE MergeFiles(_, _, _, _, _)
\* the loop over the visited files, ended by the first raise
MergeFiles(c, fs, i, files, wrote) ==
    IF i > Len(fs) THEN [cache |-> files, wrote |-> wrote, raised |-> FALSE]
    ELSE LET m == MergeFile(c, fs[i], files)
         IN IF m.raised THEN [cache |-> files, wrote |-> wrote, raised |-> TRUE]
            ELSE MergeFiles(c, fs, i + 1, m.cache, wrote \cup m.wrote)

RECURSIVE WholeWalk(_, _)
RECURSIVE WholeWalkDirs(_, _, _)
\* os.walk with no directory pruned
WholeWalk(node, path) ==
    <<[root |-> path, files |-> node.files]>> \o WholeWalkDirs(node.dirs, path, 1)
WholeWalkDirs(dirs, path, i) ==
    IF i > Len(dirs) THEN <<>>
    ELSE WholeWalk(dirs[i].sub, path \o <<dirs[i].name>>)
         \o WholeWalkDirs(dirs, path, i + 1)

RECURSIVE AllFiles(_, _)
\* every file of a walk, in order: [root, name]
AllFiles(walk, i) ==
    IF i > Len(walk) THEN <<>>
    ELSE [j \in 1..Len(walk[i].files) |->
             [root |-> walk[i].root, name |-> walk[i].files[j]]]
         \o AllFiles(walk, i + 1)

\* _process_folder without lines 93-95: .git is walked like any directory
ProcessFolderIntoDotGit(c, base, tree, present, files) ==
    LET hit == {i \in 1..Len(tree.dirs) : tree.dirs[i].name = c.source_folder}
        walk == IF ~present THEN <<>>
                ELSE IF ~Truthy(c.source_folder) THEN WholeWalk(tree, <<>>)
                ELSE IF hit = {} THEN <<>>
                ELSE WholeWalk(tree.dirs[CHOOSE i \in hit : TRUE].sub, <<>>)
    IN MergeFiles(c, AllFiles(walk, 1), 1, files, {})

\* _process_folder(config, folder, cache, output); base is the path of folder
ProcessFolder(c, base, tree, present, files) ==
    MergeFiles(c,
               VisitedFiles(EffectiveWalk(c, tree, present), EffectiveBase(c, base), 1),
               1, files, {})

(***************************************************************************)
(* is_config_install_scheduled                                             *)
(***************************************************************************)
NoInterval == [set |-> FALSE, value |-> 0]
Intervals == {NoInterval} \cup {[set |-> TRUE, value |-> v] : v \in 0..MaxInterval}

\* line 277 with >= for >
IsConfigInstallScheduledInclusive(interval, exists, modified, clock) ==
    IF interval.set
    THEN IF exists
         THEN (IF clock >= modified + interval.value THEN "True" ELSE "False")
         ELSE "raise"
    ELSE "None"

\* the value returned: "None" when the function falls off its end (line 271
\* false), "raise" for the ConanException of line 279
IsConfigInstallScheduled(interval, exists, modified, clock) ==
    IF interval.set
    THEN IF exists
         THEN (IF clock > modified + interval.value THEN "True" ELSE "False")
         ELSE "raise"
    ELSE "None"

NoGate == [interval |-> NoInterval, exists |-> FALSE, mtime |-> 0, now |-> 0,
           result |-> "unset"]

(***************************************************************************)
(* The calls made: install(uri, verify_ssl, config_type, args,             *)
(* source_folder, target_folder).                                          *)
(***************************************************************************)
Request(uri, verify_ssl, config_type, args, source_folder, target_folder) ==
    [uri |-> uri, verify_ssl |-> verify_ssl, config_type |-> config_type,
     args |-> args, source_folder |-> source_folder, target_folder |-> target_folder]

ExplicitRequests ==
    {Request(u, TRUE, NoneV, NoneV, NoneV, NoneV) : u \in Uris}
    \cup {Request("http://u:pw@h/r.git", TRUE, NoneV, "a", NoneV, NoneV)}
    \cup {Request("http://u:pw@h/c.zip", FALSE, NoneV, NoneV, NoneV, NoneV)}
    \cup {Request("conf", TRUE, "dir", NoneV, "sub", "tgt")}
    \cup {Request("http://u:pw@h/r.git", TRUE, "zip", NoneV, NoneV, NoneV)}

\* calls with a uri whose type is to be inferred, and two with a type given
InferRequests ==
    {Request(u, TRUE, NoneV, NoneV, NoneV, NoneV) : u \in InferUris}
    \cup {Request("junk", TRUE, "dir", NoneV, NoneV, NoneV),
          Request("/w/d.git", TRUE, "dir", NoneV, NoneV, NoneV)}

\* no uri, and one of config_type, args, verify_ssl off its default
OverrideRequests ==
    {Request(NoneV, v, t, a, NoneV, NoneV) :
        v \in BOOLEAN, t \in {NoneV, "git"}, a \in {NoneV, "a"}}
    \ {Request(NoneV, TRUE, NoneV, NoneV, NoneV, NoneV)}

ReplayRequest == Request(NoneV, TRUE, NoneV, NoneV, NoneV, NoneV)

NoRequest == Request(NoneV, TRUE, NoneV, NoneV, NoneV, NoneV)
NoConfig == ConfigOrigin(Request(NoneV, TRUE, NoneV, NoneV, NoneV, NoneV)
                            @@ [type |-> NoneV])
NoPre == [stored |-> <<>>, exists |-> FALSE, mtime |-> 0, cache |-> {},
          staging |-> NoStaging]
NoError == <<>>
NoOther == [pc |-> "idle", configs |-> <<>>, config |-> NoConfig,
            err |-> NoError, result |-> "none"]

\* line 228: the call is off the defaults
NotTheDefaults(r) == Truthy(r.config_type) \/ Truthy(r.args) \/ ~r.verify_ssl

\* line 233 assigning to the attribute `type`
ApplyOverrideType(c, r) ==
    [c EXCEPT !.type = PyOr(r.config_type, c.type),
              !.args = PyOr(r.args, c.args),
              !.verify_ssl = r.verify_ssl \/ c.verify_ssl]

\* lines 232-235: the overrides put on the last ledger entry
ApplyOverride(c, r) ==
    [c EXCEPT !.config_type = PyOr(r.config_type, c.type),
              !.args = PyOr(r.args, c.args),
              !.verify_ssl = r.verify_ssl \/ c.verify_ssl]

\* Upsert moving a re-installed origin to the end of the list
UpsertMoveLast(cs, c) == Append(SelectSeq(cs, LAMBDA x : ~ConfigEq(x, c)), c)

\* Upsert without the membership test of line 251
UpsertAppend(cs, c) == Append(cs, c)

\* lines 251-254: append, or put the new origin where its equals are
Upsert(cs, c) ==
    IF ~InConfigs(c, cs) THEN Append(cs, c)
    ELSE [i \in 1..Len(cs) |-> IF ~ConfigEq(cs[i], c) THEN cs[i] ELSE c]

\* the emptiness test of lines 229 and 239 left out
NoConfigsUnchecked(cs) == FALSE

\* lines 229 and 239: `if not configs`
NoConfigs(cs) == cs = <<>>

\* tmp_config_install_folder without try/finally: no rmdir on an exception
StagingAfterReleaseNoFinally(s, e) == IF e /= <<>> THEN s ELSE [exists |-> FALSE, tree |-> Leaf(<<>>)]

\* the staging folder after the `finally` of line 49, whatever was raised
StagingAfterRelease(s, e) == NoStaging

\* a scope that swallows the exception in flight
AfterReleaseSwallow(e) == "next"

\* where control goes when a tmp_config_install_folder scope is left
AfterRelease(e) == IF e /= NoError THEN "done" ELSE "next"

\* the files as the call found them
Snapshot == [stored |-> stored, exists |-> fileExists, mtime |-> mtime,
             cache |-> cache, staging |-> staging]

\* one invocation of _process_config: the origin as it would be persisted,
\* the branch taken, the folder content handed to _process_folder, whether
\* that folder was there and what the merge wrote, and the path given to
\* os.unlink
Invocation(c, fetcher) ==
    [origin |-> Json(c), fetcher |-> fetcher, merged |-> EmptyTree,
     found |-> FALSE, wrote |-> {}, unlinked |-> NoneV]

\* the invocation in progress, once _process_folder has run
Merging(invocations, tree, present, wrote) ==
    [invocations EXCEPT ![Len(invocations)] =
        [@ EXCEPT !.merged = tree, !.found = present, !.wrote = wrote]]

\* the invocation in progress, once os.unlink has been called
Unlinking(invocations, path) ==
    [invocations EXCEPT ![Len(invocations)] = [@ EXCEPT !.unlinked = path]]

\* line 138: where _process_download puts the archive
StagedZip == "tmp_config_install/config.zip"

\* the zippath argument of _process_zip_file: lines 140 and 203
ZipPath(c) == IF c.type = "url" THEN StagedZip ELSE c.uri

\* remove=True for every archive
RemoveAlways(c) == TRUE

\* the remove argument of _process_zip_file: True at line 140, the default
\* False at line 203
Remove(c) == c.type = "url"

\* the list saved built on the ledger file as it is at the save
ListToSaveReloaded(loaded, current, c) == Upsert(current, c)

\* lines 251-255 work on the list loaded at lines 220-226, whatever the
\* ledger file holds by now
ListToSave(loaded, current, c) == Upsert(loaded, c)

\* a touch that leaves the modification time as it is
TouchKeeps(modified, clock) == modified

\* line 245: the modification time touch() gives the ledger file
Touch(modified, clock) == clock

\* the loop of line 242 running over the list backwards
LoopItemReversed(cs, i) == cs[Len(cs) + 1 - i]

\* line 242: the i-th origin the loop `for config in configs` yields
LoopItem(cs, i) == cs[i]

(***************************************************************************)
(* Initial state: no ledger, an empty cache; the staging path may hold     *)
(* what an interrupted earlier run left there (the case line 44 is for).   *)
(***************************************************************************)
Init ==
    /\ stored = <<>>
    /\ fileExists = FALSE
    /\ mtime = 0
    /\ now = 0
    /\ cache = {}
    /\ staging \in {NoStaging, [exists |-> TRUE, tree |-> StaleTree]}
    /\ live = 0
    /\ pc = "idle"
    /\ req = NoRequest
    /\ mode = "none"
    /\ configs = <<>>
    /\ idx = 0
    /\ config = NoConfig
    /\ processed = <<>>
    /\ written = {}
    /\ err = NoError
    /\ result = "none"
    /\ pre = NoPre
    /\ gate = NoGate
    /\ output = <<>>
    /\ other = NoOther

(***************************************************************************)
(* configuration_install, lines 217-249: load the ledger, pick the branch. *)
(***************************************************************************)
\* lines 246-249: a uri is given
InstallExplicit(r) ==
    /\ pc = "idle"
    /\ r.uri /= NoneV
    /\ LET cs == LoadConfigs
           c == FromItem(r.uri, r.config_type, r.verify_ssl, r.args,
                         r.source_folder, r.target_folder)
       IN /\ c.type = "" \/ InConfigs(c, cs) \/ Len(cs) < MaxLedger
          /\ req' = r
          /\ mode' = "explicit"
          /\ configs' = cs
          /\ pre' = Snapshot
          /\ IF c.type = ""
             THEN /\ pc' = "done"
                  /\ result' = "error"
                  /\ err' = <<"Unable to deduce type config install", r.uri>>
                  /\ config' = config
             ELSE /\ pc' = "process"
                  /\ config' = c
                  /\ UNCHANGED <<result, err>>
    /\ UNCHANGED <<stored, fileExists, mtime, now, cache, staging, live, idx,
                   processed, written, gate, output, other>>

\* lines 228-235: no uri, not the defaults
InstallOverride(r) ==
    /\ pc = "idle"
    /\ r.uri = NoneV
    /\ NotTheDefaults(r)
    /\ LET cs == LoadConfigs
       IN /\ req' = r
          /\ mode' = "override"
          /\ pre' = Snapshot
          /\ IF NoConfigs(cs)
             THEN /\ pc' = "done"
                  /\ result' = "error"
                  /\ err' = <<"Called config install without arguments">>
                  /\ configs' = cs
                  /\ UNCHANGED <<config, idx>>
             ELSE IF Len(cs) = 0
             THEN \* configs[-1] of an empty list
                  /\ pc' = "done"
                  /\ result' = "error"
                  /\ err' = <<"IndexError">>
                  /\ configs' = cs
                  /\ UNCHANGED <<config, idx>>
             ELSE /\ pc' = "process"
                  /\ idx' = Len(cs)
                  /\ config' = ApplyOverride(cs[Len(cs)], r)
                  /\ configs' = [cs EXCEPT ![Len(cs)] = ApplyOverride(cs[Len(cs)], r)]
                  /\ UNCHANGED <<result, err>>
    /\ UNCHANGED <<stored, fileExists, mtime, now, cache, staging, live,
                   processed, written, gate, output, other>>

\* lines 238-242: no uri, the defaults; the loop of line 242 starts
InstallReplay(r) ==
    /\ pc = "idle"
    /\ r.uri = NoneV
    /\ ~NotTheDefaults(r)
    /\ LET cs == LoadConfigs
       IN /\ req' = r
          /\ mode' = "replay"
          /\ pre' = Snapshot
          /\ configs' = cs
          /\ IF NoConfigs(cs)
             THEN /\ pc' = "done"
                  /\ result' = "error"
                  /\ err' = <<"Called config install without arguments">>
                  /\ UNCHANGED <<config, idx>>
                  /\ output' = output
             ELSE /\ pc' = IF Len(cs) > 0 THEN "process" ELSE "next"
                  /\ idx' = IF Len(cs) > 0 THEN 1 ELSE 0
                  /\ config' = IF Len(cs) > 0 THEN LoopItem(cs, 1) ELSE config
                  /\ output' = IF Len(cs) > 0
                                THEN Append(output, <<"Config install:",
                                                      HidePassword(LoopItem(cs, 1).uri)>>)
                                ELSE output
                  /\ UNCHANGED <<result, err>>
    /\ UNCHANGED <<stored, fileExists, mtime, now, cache, staging, live,
                   processed, written, gate, other>>

(***************************************************************************)
(* _process_config: one action per branch.                                 *)
(***************************************************************************)
\* tmp_config_install_folder, lines 41-47: rmdir, mkdir, yield
AcquireStaging ==
    /\ staging' = [exists |-> TRUE, tree |-> EmptyTree]
    /\ live' = live + 1

\* line 198 and lines 53-54
ProcessGitRepo ==
    /\ pc = "process"
    /\ config.type = "git"
    /\ processed' = Append(processed, Invocation(config, "git"))
    /\ AcquireStaging
    /\ output' = Append(output, <<"Trying to clone repo:", config.uri>>)
    /\ pc' = "clone"
    /\ UNCHANGED <<stored, fileExists, mtime, now, cache, req, mode, configs, idx,
                   config, written, err, result, pre, gate, other>>

\* line 200: the directory at uri is merged as it is, no staging
ProcessDir ==
    /\ pc = "process"
    /\ config.type = "dir"
    /\ \E tree \in DirContents :
         LET m == ProcessFolder(config, <<config.uri>>, tree, IsDir(config.uri), cache)
         IN /\ processed' = Merging(Append(processed, Invocation(config, "dir")),
                                    tree, IsDir(config.uri), m.wrote)
            /\ cache' = m.cache
            /\ written' = written \cup m.wrote
            /\ IF m.raised
               THEN /\ err' = <<"remotes.json install is not supported yet">>
                    /\ result' = "error"
                    /\ pc' = "done"
               ELSE /\ pc' = "next"
                    /\ UNCHANGED <<err, result>>
    /\ UNCHANGED <<stored, fileExists, mtime, now, staging, live, req, mode, configs,
                   idx, config, pre, gate, output, other>>

\* lines 201-202
ProcessFile ==
    /\ pc = "process"
    /\ config.type = "file"
    /\ processed' = Append(processed, Invocation(config, "file"))
    /\ AcquireStaging
    /\ pc' = "unzip"
    /\ UNCHANGED <<stored, fileExists, mtime, now, cache, req, mode, configs, idx,
                   config, written, err, result, pre, gate, output, other>>

\* line 205 and line 134
ProcessDownload ==
    /\ pc = "process"
    /\ config.type = "url"
    /\ processed' = Append(processed, Invocation(config, "url"))
    /\ AcquireStaging
    /\ output' = Append(output, <<"Trying to download", HidePassword(config.uri)>>)
    /\ pc' = "download"
    /\ UNCHANGED <<stored, fileExists, mtime, now, cache, req, mode, configs, idx,
                   config, written, err, result, pre, gate, other>>

\* lines 206-207: no fetcher for this type
ProcessUnknown ==
    /\ pc = "process"
    /\ config.type \notin {"git", "dir", "file", "url"}
    /\ processed' = Append(processed, Invocation(config, "none"))
    /\ err' = <<"Unable to process config install", config.uri>>
    /\ result' = "error"
    /\ pc' = "done"
    /\ UNCHANGED <<stored, fileExists, mtime, now, cache, staging, live, req, mode,
                   configs, idx, config, written, pre, gate, output, other>>

\* lines 55-62: chdir to the staging folder and git clone into it, which
\* may fail, and does when the folder is gone or is not empty
Clone ==
    /\ pc = "clone"
    /\ \/ /\ staging.exists
          /\ staging.tree = EmptyTree
          /\ staging' = [staging EXCEPT !.tree = RepoTree]
          /\ pc' = "merge"
          /\ err' = err
       \/ /\ err' = IF staging.exists THEN <<"Can't clone repo">> ELSE <<"chdir">>
          /\ pc' = "release"
          /\ staging' = staging
    /\ UNCHANGED <<stored, fileExists, mtime, now, cache, live, req, mode, configs,
                   idx, config, processed, written, result, pre, gate, output, other>>

\* lines 136-139: the archive is downloaded to <staging>/config.zip, or not
Download ==
    /\ pc = "download"
    /\ \/ /\ staging' = [staging EXCEPT !.tree = Leaf(<<"config.zip">>)]
          /\ pc' = "unzip"
          /\ err' = err
       \/ /\ err' = <<"Error while installing config from", config.uri, "download">>
          /\ pc' = "release"
          /\ staging' = staging
    /\ UNCHANGED <<stored, fileExists, mtime, now, cache, live, req, mode, configs,
                   idx, config, processed, written, result, pre, gate, output, other>>

\* the staging tree once `content` is extracted into it
Extract(tree, content) ==
    [files |-> tree.files \o content.files, dirs |-> tree.dirs \o content.dirs]

\* os.unlink(zippath)
Unlink(tree, name) ==
    [tree EXCEPT !.files = SelectSeq(tree.files, LAMBDA f : f /= name)]

\* lines 67-69: unzip into the staging folder; the downloaded archive is
\* removed (remove=True), the caller's archive is not
Unzip ==
    /\ pc = "unzip"
    /\ \/ \E content \in ZipContents :
             /\ staging' = [staging EXCEPT !.tree =
                              IF Remove(config) /\ ZipPath(config) = StagedZip
                              THEN Unlink(Extract(staging.tree, content), "config.zip")
                              ELSE Extract(staging.tree, content)]
             /\ processed' = IF Remove(config)
                              THEN Unlinking(processed, ZipPath(config))
                              ELSE processed
             /\ pc' = "merge"
             /\ err' = err
       \/ /\ err' = IF config.type = "url"
                    THEN <<"Error while installing config from", config.uri, "unzip">>
                    ELSE <<"unzip">>
          /\ pc' = "release"
          /\ staging' = staging
          /\ processed' = processed
    /\ UNCHANGED <<stored, fileExists, mtime, now, cache, live, req, mode, configs,
                   idx, config, written, result, pre, gate, output, other>>

\* lines 63 and 70: _process_folder on the staging folder; a raise inside
\* _process_download is wrapped by line 142
MergeStaged ==
    /\ pc = "merge"
    /\ LET m == ProcessFolder(config, <<"tmp_config_install">>, staging.tree,
                              staging.exists, cache)
       IN /\ cache' = m.cache
          /\ processed' = Merging(processed, staging.tree, staging.exists, m.wrote)
          /\ written' = written \cup m.wrote
          /\ err' = IF ~m.raised THEN err
                    ELSE IF config.type = "url"
                    THEN <<"Error while installing config from", config.uri,
                           "remotes.json install is not supported yet">>
                    ELSE <<"remotes.json install is not supported yet">>
    /\ pc' = "release"
    /\ UNCHANGED <<stored, fileExists, mtime, now, staging, live, req, mode, configs,
                   idx, config, result, pre, gate, output, other>>

\* lines 48-49: the scope is left, normally or by the exception in flight
Release ==
    /\ pc = "release"
    /\ staging' = StagingAfterRelease(staging, err)
    /\ live' = live - 1
    /\ pc' = AfterRelease(err)
    /\ result' = IF AfterRelease(err) = "done" THEN "error" ELSE result
    /\ UNCHANGED <<stored, fileExists, mtime, now, cache, req, mode, configs, idx,
                   config, processed, written, err, pre, gate, output, other>>

(***************************************************************************)
(* configuration_install after _process_config has returned.               *)
(***************************************************************************)
\* line 242: the loop goes on with the next stored origin
ReplayNext ==
    /\ pc = "next"
    /\ mode = "replay"
    /\ idx < Len(configs)
    /\ idx' = idx + 1
    /\ config' = LoopItem(configs, idx + 1)
    /\ output' = Append(output, <<"Config install:",
                                  HidePassword(LoopItem(configs, idx + 1).uri)>>)
    /\ pc' = "process"
    /\ UNCHANGED <<stored, fileExists, mtime, now, cache, staging, live, req, mode,
                   configs, processed, written, err, result, pre, gate, other>>

\* line 245: touch(cache.config_install_file); os.utime fails on no file
ReplayTouch ==
    /\ pc = "next"
    /\ mode = "replay"
    /\ idx >= Len(configs)
    /\ IF fileExists
       THEN /\ mtime' = Touch(mtime, now)
            /\ result' = "ok"
            /\ err' = err
       ELSE /\ mtime' = mtime
            /\ result' = "error"
            /\ err' = <<"touch">>
    /\ pc' = "done"
    /\ UNCHANGED <<stored, fileExists, now, cache, staging, live, req, mode, configs,
                   idx, config, processed, written, pre, gate, output, other>>

\* line 237: _save_configs(configs_file, configs)
OverrideSave ==
    /\ pc = "next"
    /\ mode = "override"
    /\ stored' = SaveConfigs(configs)
    /\ fileExists' = TRUE
    /\ mtime' = now
    /\ result' = "ok"
    /\ pc' = "done"
    /\ UNCHANGED <<now, cache, staging, live, req, mode, configs, idx, config,
                   processed, written, err, pre, gate, output, other>>

\* lines 251-255
ExplicitSave ==
    /\ pc = "next"
    /\ mode = "explicit"
    /\ configs' = ListToSave(configs, LoadConfigs, config)
    /\ stored' = SaveConfigs(ListToSave(configs, LoadConfigs, config))
    /\ fileExists' = TRUE
    /\ mtime' = now
    /\ result' = "ok"
    /\ pc' = "done"
    /\ UNCHANGED <<now, cache, staging, live, req, mode, idx, config, processed,
                   written, err, pre, gate, output, other>>

\* the call has returned or raised; its locals are gone
Return ==
    /\ pc = "done"
    /\ pc' = "idle"
    /\ req' = NoRequest
    /\ mode' = "none"
    /\ configs' = <<>>
    /\ idx' = 0
    /\ config' = NoConfig
    /\ processed' = <<>>
    /\ written' = {}
    /\ err' = NoError
    /\ result' = "none"
    /\ pre' = NoPre
    /\ output' = <<>>
    /\ UNCHANGED <<stored, fileExists, mtime, now, cache, staging, live, gate, other>>

(***************************************************************************)
(* The clock and the schedule gate.                                        *)
(***************************************************************************)
\* Time passes.  The clock is read by the saves, the touch and the gate
\* only, so a tick anywhere else in a call is the same as a tick just
\* before the next of them.
Tick ==
    /\ pc \in {"idle", "next"}
    /\ now < MaxTime
    /\ now' = now + 1
    /\ UNCHANGED <<stored, fileExists, mtime, cache, staging, live, pc, req, mode,
                   configs, idx, config, processed, written, err, result, pre, gate, output, other>>

\* is_config_install_scheduled(api), with the interval the cache configures
Gate(interval) ==
    /\ pc = "idle"
    /\ gate' = [interval |-> interval, exists |-> fileExists, mtime |-> mtime,
                now |-> now,
                result |-> IsConfigInstallScheduled(interval, fileExists, mtime, now)]
    /\ pc' = "gated"
    /\ UNCHANGED <<stored, fileExists, mtime, now, cache, staging, live, req, mode,
                   configs, idx, config, processed, written, err, result, pre, output, other>>

GateReturn ==
    /\ pc = "gated"
    /\ gate' = NoGate
    /\ pc' = "idle"
    /\ UNCHANGED <<stored, fileExists, mtime, now, cache, staging, live, req, mode,
                   configs, idx, config, processed, written, err, result, pre, output, other>>

Next ==
    \/ \E r \in ExplicitRequests : InstallExplicit(r)
    \/ \E r \in OverrideRequests : InstallOverride(r)
    \/ InstallReplay(ReplayRequest)
    \/ ProcessGitRepo
    \/ ProcessDir
    \/ ProcessFile
    \/ ProcessDownload
    \/ ProcessUnknown
    \/ Clone
    \/ Download
    \/ Unzip
    \/ MergeStaged
    \/ Release
    \/ ReplayNext
    \/ ReplayTouch
    \/ OverrideSave
    \/ ExplicitSave
    \/ Return
    \/ Tick
    \/ \E i \in Intervals : Gate(i)
    \/ GateReturn

Spec == Init /\ [][Next]_vars

(***************************************************************************)
(* A second installer on the same cache: one configuration_install call    *)
(* with the uri of an archive file, run by another process.  Its locals    *)
(* are in `other`; the ledger file, the cache and the staging path are the *)
(* ones of the first installer.                                            *)
(***************************************************************************)
OtherRequests == {Request("/w/c.zip", TRUE, NoneV, NoneV, NoneV, NoneV)}

\* lines 217-226 and 246-249: load the ledger, build the origin
OtherInstall(r) ==
    /\ other.pc = "idle"
    /\ LET c == FromItem(r.uri, r.config_type, r.verify_ssl, r.args,
                         r.source_folder, r.target_folder)
       IN /\ c.type = "file"
          /\ other' = [other EXCEPT !.pc = "process", !.configs = LoadConfigs,
                                    !.config = c]
    /\ UNCHANGED <<stored, fileExists, mtime, now, cache, staging, live, pc, req, mode,
                   configs, idx, config, processed, written, err, result, pre, gate,
                   output>>

\* lines 201-202 and 41-47: rmdir and mkdir of the shared staging path
OtherAcquire ==
    /\ other.pc = "process"
    /\ staging' = [exists |-> TRUE, tree |-> EmptyTree]
    /\ other' = [other EXCEPT !.pc = "unzip"]
    /\ UNCHANGED <<stored, fileExists, mtime, now, cache, live, pc, req, mode, configs,
                   idx, config, processed, written, err, result, pre, gate, output>>

\* line 67: unzip into the staging path, creating it if it is gone
OtherUnzip ==
    /\ other.pc = "unzip"
    /\ \/ \E content \in ZipContents :
             /\ staging' = [exists |-> TRUE,
                            tree |-> Extract(IF staging.exists THEN staging.tree
                                             ELSE EmptyTree, content)]
             /\ other' = [other EXCEPT !.pc = "merge"]
       \/ /\ staging' = staging
          /\ other' = [other EXCEPT !.pc = "release", !.err = <<"unzip">>]
    /\ UNCHANGED <<stored, fileExists, mtime, now, cache, live, pc, req, mode, configs,
                   idx, config, processed, written, err, result, pre, gate, output>>

\* line 70: _process_folder on whatever is at the staging path
OtherMerge ==
    /\ other.pc = "merge"
    /\ LET m == ProcessFolder(other.config, <<"tmp_config_install">>, staging.tree,
                              staging.exists, cache)
       IN /\ cache' = m.cache
          /\ other' = [other EXCEPT
                          !.pc = "release",
                          !.err = IF m.raised
                                  THEN <<"remotes.json install is not supported yet">>
                                  ELSE @]
    /\ UNCHANGED <<stored, fileExists, mtime, now, staging, live, pc, req, mode,
                   configs, idx, config, processed, written, err, result, pre, gate,
                   output>>

\* lines 48-49: rmdir of the shared staging path
OtherRelease ==
    /\ other.pc = "release"
    /\ staging' = StagingAfterRelease(staging, other.err)
    /\ other' = [other EXCEPT
                    !.pc = IF AfterRelease(other.err) = "done" THEN "done" ELSE "save",
                    !.result = IF AfterRelease(other.err) = "done" THEN "error" ELSE @]
    /\ UNCHANGED <<stored, fileExists, mtime, now, cache, live, pc, req, mode, configs,
                   idx, config, processed, written, err, result, pre, gate, output>>

\* lines 251-255
OtherSave ==
    /\ other.pc = "save"
    /\ stored' = SaveConfigs(ListToSave(other.configs, LoadConfigs, other.config))
    /\ fileExists' = TRUE
    /\ mtime' = now
    /\ other' = [other EXCEPT !.pc = "done", !.result = "ok"]
    /\ UNCHANGED <<now, cache, staging, live, pc, req, mode, configs, idx, config,
                   processed, written, err, result, pre, gate, output>>

\* the calls of the first installer while the second one runs: repositories
ConcRequests ==
    {Request("http://u:pw@h/r.git", TRUE, NoneV, a, NoneV, NoneV) : a \in {NoneV, "a"}}

\* two installers, each with a uri, on one cache
NextConc ==
    \/ \E r \in ConcRequests : InstallExplicit(r)
    \/ ProcessGitRepo
    \/ Clone
    \/ MergeStaged
    \/ Release
    \/ ExplicitSave
    \/ Return
    \/ \E r \in OtherRequests : OtherInstall(r)
    \/ OtherAcquire
    \/ OtherUnzip
    \/ OtherMerge
    \/ OtherRelease
    \/ OtherSave

SpecConc == Init /\ [][NextConc]_vars

\* installs with a uri only, over the uris of InferUris
NextInfer ==
    \/ \E r \in InferRequests : InstallExplicit(r)
    \/ ProcessGitRepo
    \/ ProcessDir
    \/ ProcessFile
    \/ ProcessDownload
    \/ Clone
    \/ Download
    \/ Unzip
    \/ MergeStaged
    \/ Release
    \/ ExplicitSave
    \/ Return

SpecInfer == Init /\ [][NextInfer]_vars

(***************************************************************************)
(* Properties.                                                             *)
(***************************************************************************)
\* the key of a ledger entry
Key(e) == <<e.type, e.uri, e.args, e.source_folder, e.target_folder>>

Returned == pc = "done"
Succeeded == pc = "done" /\ result = "ok"
Failed == pc = "done" /\ result = "error"
Origins(invocations) == [i \in 1..Len(invocations) |-> invocations[i].origin]
UsedStaging == \E i \in 1..Len(processed) : processed[i].fetcher \in {"git", "file", "url"}

\* C1: the persisted ledger holds at most one entry per distinct
\* (type, uri, args, source_folder, target_folder) key, after any sequence of
\* install calls of the three shapes.
C1_LedgerUnique ==
    \A i, j \in 1..Len(stored) : i /= j => Key(stored[i]) /= Key(stored[j])

\* C2: a successful install with a uri replaces, at their index, the ledger
\* entries that equal the new descriptor on the key (verify_ssl ignored) and
\* changes nothing else; with no such entry it appends the new descriptor as
\* the last entry; either way the ledger is persisted.
C2_ExplicitUpsert ==
    (Succeeded /\ mode = "explicit") =>
        LET new == Json(FromItem(req.uri, req.config_type, req.verify_ssl, req.args,
                                 req.source_folder, req.target_folder))
            old == pre.stored
            hit == {i \in 1..Len(old) : Key(old[i]) = Key(new)}
        IN /\ new.verify_ssl = req.verify_ssl
           /\ IF hit /= {}
              THEN /\ Len(stored) = Len(old)
                   /\ \A i \in 1..Len(old) :
                        stored[i] = IF i \in hit THEN new ELSE old[i]
              ELSE stored = Append(old, new)
           /\ fileExists
           /\ mtime = now

\* a replacement at index 1 of 2 that changes the stored verify_ssl
C2_Witness ==
    /\ Succeeded /\ mode = "explicit"
    /\ Len(pre.stored) = 2
    /\ Key(pre.stored[1]) = Key(Json(config))
    /\ Key(pre.stored[2]) /= Key(Json(config))
    /\ pre.stored[1].verify_ssl /= req.verify_ssl
    /\ stored[1].verify_ssl = req.verify_ssl

\* C3: a replay processes every stored origin exactly once, in list order;
\* the ledger's timestamp becomes now only once all have succeeded; the
\* ledger's content is never changed by it.
C3_Replay ==
    mode = "replay" =>
        /\ stored = pre.stored
        /\ fileExists = pre.exists
        /\ ~Succeeded => mtime = pre.mtime
        /\ Succeeded =>
             /\ mtime = now
             /\ err = NoError
             /\ Origins(processed) = pre.stored

\* a replay of two origins that moved the timestamp
C3_Witness ==
    /\ Succeeded /\ mode = "replay"
    /\ Len(pre.stored) = 2
    /\ pre.stored[1] /= pre.stored[2]
    /\ pre.mtime < mtime

\* C4: when the processing of the k-th entry fails in a replay, nothing
\* after it is processed, the error reaches the caller, the timestamp stays,
\* and what earlier entries merged stays in the cache.
C4_ReplayAbort ==
    mode = "replay" =>
        /\ err /= NoError => pc \in {"release", "done"}
        /\ (Returned /\ err /= NoError) => result = "error"
        /\ (Failed /\ pre.stored /= <<>>) =>
             /\ err /= NoError
             /\ Len(processed) = idx
             /\ Origins(processed) = SubSeq(pre.stored, 1, idx)
             /\ mtime = pre.mtime
             /\ written \subseteq cache

\* a replay that failed on its first entry of two, after a partial merge
C4_Witness ==
    /\ Failed /\ mode = "replay"
    /\ Len(pre.stored) = 2
    /\ Len(processed) = 1
    /\ written /= {}
    /\ written \subseteq cache

\* C5: with no uri and an empty or absent ledger, the override path and the
\* replay path both raise 'Called config install without arguments', and
\* nothing is fetched, merged or written.
C5_NoArguments ==
    (mode \in {"override", "replay"} /\ (pre.stored = <<>> \/ ~pre.exists)) =>
        /\ Failed
        /\ err = <<"Called config install without arguments">>
        /\ processed = <<>>
        /\ written = {}
        /\ cache = pre.cache
        /\ staging = pre.staging
        /\ live = 0
        /\ fileExists = pre.exists
        /\ stored = pre.stored
        /\ mtime = pre.mtime

\* the override path raising on an absent ledger
C5_Witness ==
    /\ Failed /\ mode = "override"
    /\ ~pre.exists
    /\ ~fileExists
    /\ err = <<"Called config install without arguments">>

\* C6: the descriptor an override-mode call processes and persists has the
\* supplied args when args is given (the stored args otherwise) and the
\* supplied verify_ssl, also when that is false and the stored one is true.
C6_OverrideApplied ==
    (Succeeded /\ mode = "override") =>
        LET was == pre.stored[Len(pre.stored)]
            kept == stored[Len(stored)]
            ran == processed[1].origin
            args == IF Truthy(req.args) THEN req.args ELSE was.args
        IN /\ kept.args = args
           /\ ran.args = args
           /\ kept.verify_ssl = req.verify_ssl
           /\ ran.verify_ssl = req.verify_ssl

\* C7: with a type override, the fetcher run is the one of the supplied
\* type, and the type stored on the ledger entry does not change.
C7_TypeOverrideUsed ==
    (mode = "override" /\ Truthy(req.config_type) /\ processed /= <<>>) =>
        /\ processed[1].fetcher = req.config_type
        /\ Succeeded => stored[Len(stored)].type = pre.stored[Len(pre.stored)].type

\* C8: a successful override-mode call keeps the ledger's length and order,
\* every entry but the last, and the last entry's type, uri, source_folder
\* and target_folder.
C8_OverrideFrame ==
    (Succeeded /\ mode = "override") =>
        /\ Len(stored) = Len(pre.stored)
        /\ \A i \in 1..(Len(stored) - 1) : stored[i] = pre.stored[i]
        /\ LET was == pre.stored[Len(pre.stored)]
               kept == stored[Len(stored)]
           IN /\ kept.type = was.type
              /\ kept.uri = was.uri
              /\ kept.source_folder = was.source_folder
              /\ kept.target_folder = was.target_folder

\* an override of type and args on the second of two entries
C8_Witness ==
    /\ Succeeded /\ mode = "override"
    /\ Len(pre.stored) = 2
    /\ Truthy(req.config_type)
    /\ req.config_type /= pre.stored[2].type
    /\ stored[2].args /= pre.stored[2].args

\* C9: the staging folder is empty when acquired, whatever was left at its
\* path; at most one is live; once a call that used one has returned or
\* raised, the folder does not exist.
C9_Staging ==
    /\ live \in {0, 1}
    /\ live = 1 <=> pc \in {"clone", "download", "unzip", "merge", "release"}
    /\ live = 1 => staging.exists
    /\ (pc \in {"clone", "download"} \/ (pc = "unzip" /\ config.type = "file"))
          => staging.tree = EmptyTree
    /\ (pc = "unzip" /\ config.type = "url") => staging.tree = Leaf(<<"config.zip">>)
    /\ (Returned /\ UsedStaging) => ~staging.exists

\* a call that found a leftover, failed in the merge and left no folder
C9_Witness ==
    /\ Failed
    /\ pre.staging.exists
    /\ UsedStaging
    /\ err = <<"remotes.json install is not supported yet">>
    /\ written /= {}
    /\ ~staging.exists

\* not due: False, or the None of a call that returns nothing
NotDue(r) == r \in {"False", "None"}

ShowsPassword(text) == text \in {"http://u:pw@h/c.zip", "http://u:pw@h/r.git"}

\* C11: no text handed to the output sink, and no error message, of an
\* install call shows the password embedded in an origin's uri: the uri
\* appears in them in its redacted form only.
C11_PasswordHidden ==
    /\ \A i \in 1..Len(output) : \A j \in 1..Len(output[i]) : ~ShowsPassword(output[i][j])
    /\ \A j \in 1..Len(err) : ~ShowsPassword(err[j])

\* the path of the folder an invocation handed to _process_folder
MergeBase(inv) ==
    IF inv.fetcher = "dir" THEN <<inv.origin.uri>> ELSE <<"tmp_config_install">>

\* the files the merge of an invocation reaches, in walk order
Reached(inv) ==
    LET c == ConfigOrigin(inv.origin)
    IN VisitedFiles(EffectiveWalk(c, inv.merged, inv.found),
                    EffectiveBase(c, MergeBase(inv)), 1)

\* C12: a file named remotes.json met by the merge ends the merge with the
\* error 'remotes.json install is not supported yet': what the files before
\* it in the walk wrote stays in the cache, no file after it is merged, no
\* further origin is processed, and a call with a uri adds nothing to the
\* ledger.
C12_RemotesJsonAborts ==
    \A k \in 1..Len(processed) :
        LET inv == processed[k]
            c == ConfigOrigin(inv.origin)
            fs == Reached(inv)
            hit == {i \in 1..Len(fs) : fs[i].name = "remotes.json"}
        IN hit /= {} =>
             LET first == CHOOSE i \in hit : \A j \in hit : i <= j
                 before == UNION {MergeFile(c, fs[i], {}).wrote : i \in 1..(first - 1)}
             IN /\ err /= NoError
                /\ err[Len(err)] = "remotes.json install is not supported yet"
                /\ pc \in {"release", "done"}
                /\ Returned => result = "error"
                /\ k = Len(processed)
                /\ inv.wrote = before
                /\ inv.wrote \subseteq cache
                /\ mode = "explicit" =>
                     /\ stored = pre.stored
                     /\ fileExists = pre.exists
                     /\ mtime = pre.mtime

\* a downloaded archive with settings.yml, remotes.json, a.txt in this order:
\* settings.yml is new in the cache, a.txt is not there, the ledger is as it was
C12_Witness ==
    /\ Failed /\ mode = "explicit"
    /\ config.type = "url"
    /\ processed[1].wrote = {<<"settings.yml">>}
    /\ <<"settings.yml">> \notin pre.cache
    /\ <<"settings.yml">> \in cache
    /\ <<"a.txt">> \notin cache
    /\ stored = pre.stored
    /\ err[Len(err)] = "remotes.json install is not supported yet"

\* C13: nothing below a directory named .git is merged, whatever the file is
\* called.  In the folders of the model config, conan.conf and the
\* remotes.json of a clone exist below .git only: no cache path has a .git
\* component, conan.conf is never applied, and the merge of a clone never
\* raises.
C13_NoDotGit ==
    /\ \A p \in cache : \A i \in 1..Len(p) : p[i] /= ".git"
    /\ <<"conan.conf">> \notin cache
    /\ \A k \in 1..Len(processed) :
         /\ \A p \in processed[k].wrote : \A i \in 1..Len(p) : p[i] /= ".git"
         /\ (k = Len(processed) /\ processed[k].fetcher = "git" /\ processed[k].found)
               => err = NoError

\* a clone, with config and remotes.json below .git, merged without an error
C13_Witness ==
    /\ Succeeded
    /\ Len(processed) = 1
    /\ processed[1].fetcher = "git"
    /\ processed[1].merged = RepoTree
    /\ processed[1].wrote = {<<"settings.yml">>}
    /\ cache = pre.cache \cup {<<"settings.yml">>}

\* the effective root of an invocation: the folder, or its source_folder
EffectiveTree(inv) ==
    LET c == ConfigOrigin(inv.origin)
        hit == {i \in 1..Len(inv.merged.dirs) : inv.merged.dirs[i].name = c.source_folder}
    IN IF ~Truthy(c.source_folder) THEN inv.merged
       ELSE IF hit = {} THEN EmptyTree
       ELSE inv.merged.dirs[CHOOSE i \in hit : TRUE].sub

\* the file names the merge has rules of their own for
SpecialNames == {"settings.yml", "conan.conf", "remotes.txt", "registry.txt",
                 "registry.json", "remotes.json"}

\* C14: once a merge has run to its end, every file below the effective root
\* that is not inside a directory named .git and has no special name is in
\* the cache at [target_folder/]<path relative to the effective root>, except
\* README.md and LICENSE.txt directly at the effective root, which are not
\* copied; files of these two names in subdirectories are copied.
C14_GenericCopy ==
    \A k \in 1..Len(processed) :
        LET inv == processed[k]
            c == ConfigOrigin(inv.origin)
            all == AllFiles(WholeWalk(EffectiveTree(inv), <<>>), 1)
        IN (inv.found /\ (k < Len(processed) \/ err = NoError)) =>
             \A i \in 1..Len(all) :
                 LET f == all[i]
                 IN IF f.root = <<>> /\ f.name \in {"README.md", "LICENSE.txt"}
                    THEN TargetPath(c, f) \notin inv.wrote
                    ELSE ((\A j \in 1..Len(f.root) : f.root[j] /= ".git")
                            /\ f.name \notin SpecialNames)
                           => /\ TargetPath(c, f) \in inv.wrote
                              /\ TargetPath(c, f) \in cache

\* C15: processing an archive-file origin never unlinks the archive at its
\* uri, whether the call succeeds or fails; processing an archive-url origin
\* unlinks the downloaded <staging>/config.zip after the extraction and
\* before the merge walk, so config.zip is never merged into the cache.
C15_ArchiveOwnership ==
    /\ <<"config.zip">> \notin cache
    /\ (pc = "merge" /\ config.type = "url") =>
          \A i \in 1..Len(staging.tree.files) : staging.tree.files[i] /= "config.zip"
    /\ \A k \in 1..Len(processed) :
         LET inv == processed[k]
         IN /\ inv.unlinked /= inv.origin.uri
            /\ inv.fetcher /= "url" => inv.unlinked = NoneV
            /\ (inv.fetcher = "url" /\ (inv.found \/ (k = Len(processed) /\ pc = "merge")))
                  => /\ inv.unlinked = StagedZip
                     /\ \A i \in 1..Len(inv.merged.files) :
                          inv.merged.files[i] /= "config.zip"
                     /\ <<"config.zip">> \notin inv.wrote

\* a replay of an archive-file origin and an archive-url origin: the first
\* unlinked nothing, the second its download, and merged the extracted file
C15_Witness ==
    /\ Succeeded /\ mode = "replay"
    /\ Len(processed) = 2
    /\ processed[1].fetcher = "file"
    /\ IsFile(processed[1].origin.uri)
    /\ processed[1].unlinked = NoneV
    /\ processed[2].fetcher = "url"
    /\ processed[2].unlinked = StagedZip
    /\ processed[2].merged = ZipTree

\* C16: with no type given, a uri ending in .git is a repository, also when
\* it is an existing directory or file; otherwise an existing directory is a
\* directory; otherwise an existing file is an archive file; otherwise a uri
\* starting with http is an archive url; otherwise the call fails with
\* 'Unable to deduce type config install' and fetches, merges and persists
\* nothing.  A type that is given is taken as it is.
C16_TypeInference ==
    mode = "explicit" =>
        LET u == req.uri
            git == EndsWithDotGit(u)
            dir == ~git /\ IsDir(u)
            file == ~git /\ ~dir /\ IsFile(u)
            url == ~git /\ ~dir /\ ~file /\ StartsWithHttp(u)
        IN IF Truthy(req.config_type) THEN config.type = req.config_type
           ELSE /\ git => config.type = "git"
                /\ dir => config.type = "dir"
                /\ file => config.type = "file"
                /\ url => config.type = "url"
                /\ ~(git \/ dir \/ file \/ url) =>
                     /\ Failed
                     /\ err[1] = "Unable to deduce type config install"
                     /\ processed = <<>>
                     /\ written = {}
                     /\ cache = pre.cache
                     /\ staging = pre.staging
                     /\ stored = pre.stored
                     /\ fileExists = pre.exists
                     /\ mtime = pre.mtime

\* an existing directory whose name ends in .git, installed as a repository
C16_Witness ==
    /\ Succeeded /\ mode = "explicit"
    /\ ~Truthy(req.config_type)
    /\ EndsWithDotGit(req.uri)
    /\ IsDir(req.uri)
    /\ processed[1].fetcher = "git"
    /\ stored[Len(stored)].type = "git"

\* C17: right after a successful install with a uri, whatever installs came
\* before it, the last ledger entry is the origin this install installed.
C17_LastIsMostRecent ==
    (Succeeded /\ mode = "explicit") => stored[Len(stored)] = Json(config)

\* C17, amended: the last ledger entry is the origin most recently appended.
\* A successful install with a uri whose origin is not in the ledger makes it
\* the last entry; one whose origin is in the ledger already leaves every
\* entry at its index, so the last entry keeps its key.
C17_LastIsLastAppended ==
    (Succeeded /\ mode = "explicit") =>
        LET new == Json(config)
            old == pre.stored
        IN IF \E i \in 1..Len(old) : Key(old[i]) = Key(new)
           THEN /\ Len(stored) = Len(old)
                /\ Key(stored[Len(stored)]) = Key(old[Len(old)])
           ELSE /\ Len(stored) = Len(old) + 1
                /\ stored[Len(stored)] = new

\* the first of two origins installed again: the other one is still last
C17_Witness ==
    /\ Succeeded /\ mode = "explicit"
    /\ Len(pre.stored) = 2
    /\ Key(pre.stored[1]) = Key(Json(config))
    /\ Key(pre.stored[2]) /= Key(Json(config))
    /\ stored[2] = pre.stored[2]
    /\ stored[Len(stored)] /= Json(config)

\* C18: a call of any of the three shapes that raises, wherever it raises,
\* leaves the ledger file as the call found it: same content, same
\* existence, same modification time.  Nothing is persisted while an
\* exception is in flight either.
C18_FailedKeepsLedger ==
    (mode /= "none" /\ (err /= NoError \/ result = "error")) =>
        /\ stored = pre.stored
        /\ fileExists = pre.exists
        /\ mtime = pre.mtime

\* an override of args that failed after the entry was changed in memory
C18_Witness ==
    /\ Failed /\ mode = "override"
    /\ processed /= <<>>
    /\ configs[Len(configs)].args /= pre.stored[Len(pre.stored)].args
    /\ stored = pre.stored
    /\ mtime = pre.mtime
    /\ mtime < now

\* C19: every successful install leaves the ledger file modified now, so the
\* gate is not due for any interval >= 0 right after it; a failed install
\* leaves the modification time alone; the modification time changes in no
\* other way, and the gate is not due exactly while now is no more than the
\* interval past it.
C19_GateFollowsInstalls ==
    /\ [](Succeeded =>
            /\ fileExists
            /\ mtime = now
            /\ \A i \in Intervals :
                 i.set => IsConfigInstallScheduled(i, fileExists, mtime, now) = "False")
    /\ [](Failed => mtime = pre.mtime)
    /\ []((pc = "gated" /\ gate.interval.set /\ fileExists) =>
            (gate.result = "False" <=> now <= mtime + gate.interval.value))
    /\ [][mtime' /= mtime => (pc' = "done" /\ result' = "ok" /\ mtime' = now')]_vars

\* the gate asked, with interval 0, at the time of a successful install
C19_Witness ==
    /\ pc = "gated"
    /\ gate.interval.set
    /\ gate.interval.value = 0
    /\ fileExists
    /\ now > 0
    /\ mtime = now
    /\ gate.result = "False"

\* whether a ledger holds an entry with this key
HasKey(ledger, key) == \E i \in 1..Len(ledger) : Key(ledger[i]) = key

\* both installers have returned without an error
BothSucceeded == Succeeded /\ mode = "explicit" /\ other.pc = "done" /\ other.result = "ok"

\* C20: two installers of different origins on one cache.  Each saves the
\* list it loaded with its own origin put in: when both succeed and neither
\* had the other's origin (or its own) in the list it loaded, that is, when
\* each loaded before the other saved, the ledger file ends with exactly
\* one of the two origins.
C20_LostUpdate ==
    LET mine == Key(Json(config))
        theirs == Key(Json(other.config))
        loaded == SaveConfigs(other.configs)
    IN (/\ BothSucceeded
        /\ mine /= theirs
        /\ ~HasKey(pre.stored, mine) /\ ~HasKey(pre.stored, theirs)
        /\ ~HasKey(loaded, mine) /\ ~HasKey(loaded, theirs))
       => /\ HasKey(stored, mine) \/ HasKey(stored, theirs)
          /\ ~(HasKey(stored, mine) /\ HasKey(stored, theirs))

\* both installers succeeded, the ledger holds one origin only, and the
\* first one's clone succeeded but its merge found the staging folder gone:
\* the second one's release had removed it
C20_Witness ==
    /\ BothSucceeded
    /\ Key(Json(config)) /= Key(Json(other.config))
    /\ pre.stored = <<>>
    /\ other.configs = <<>>
    /\ Len(stored) = 1
    /\ Len(processed) = 1
    /\ processed[1].fetcher = "git"
    /\ ~processed[1].found
    /\ processed[1].merged = EmptyTree
    /\ processed[1].wrote = {}

====
